---------------------------- MODULE Spec2Model ----------------------------
(***************************************************************************)
(* Model of the intraday back-testing core: the capital allocator          *)
(* (stock_allocator.py), the execution simulator (real_algorithm_engine.py)*)
(* the candle source's date filter and cache (yahoo_data_fetcher.py), the   *)
(* expectancy function (stock_allocator.py) and the two orchestrators      *)
(* (run_real_backtest.py, run_multi_timeframe.py).                         *)
(*                                                                         *)
(* Arithmetic.  The program computes on floats; the model computes the     *)
(* same expressions exactly, on integers, by fixing a unit per quantity:   *)
(*   paise        1/100 rupee: candle prices and every value the program   *)
(*                rounds to 2 decimals                                     *)
(*   centipaise   1/100 paisa: stop_loss, target, max_loss, target_profit  *)
(*                (a whole percentage of a paise amount)                   *)
(*   millipaise   1/1000 paisa: a price after entry slippage               *)
(*   micropaise   1/100000 paisa: an exit price after slippage, P&L, cost  *)
(* Whole rupees: daily_capital, capital_per_trade.  Whole percent:         *)
(* stop_loss_percent, target_percent, basket_loss_percent,                 *)
(* capital_cap_percent.  slippage_permille is slippage_percent * 10 and    *)
(* transaction_cost_bp is transaction_cost_percent * 100.                  *)
(* A time of day is the number of its candle slot.                         *)
(***************************************************************************)
EXTENDS Integers, Sequences, FiniteSets, TLC

VARIABLES
    cfg,            \* the configuration dictionary (ALGORITHM_CONFIG)
    pc,             \* position of the run
    stocks,         \* allocate_capital: the candidate list handed in
    allocated,      \* allocate_capital: the returned list, None before the call
    raw_df,         \* fetch_intraday_data: the frame the provider returned
    candle_data,    \* the candle series after the date filter, None if absent
    bias,           \* the suggestion's bias
    confidence,     \* the suggestion's confidence
    entry_details,  \* calculate_entry's result, None if no entry
    scanned,        \* simulate_trade: positions the exit scan tested
    trade,          \* simulate_trade's record, None if no result
    trades,         \* calculate_expectancy: the trade list handed in
    stats,          \* calculate_expectancy: the returned dictionary, None before
    validation,     \* validate_allocation: the list handed in and the result
    orchestrator,   \* which runner: "real" (allocating) or "multi"
    source,         \* the Suggestion Source: (prompt_type, date) -> suggestions
    cache,          \* YahooDataFetcher.cache: cache_key -> frame
    pending,        \* the (prompt_type, date) combinations not yet processed
    all_trades,     \* the trade records collected so far
    report,         \* the list handed to generate_report, None before
    prompt_performance  \* the rows of the Prompt Performance sheet, None before

\* The variables of one symbol's simulation, of the two diagnostic calls and of
\* a run.
simVars == <<stocks, allocated, raw_df, candle_data, bias, confidence,
             entry_details, scanned, trade>>
expVars == <<trades, stats, validation>>
runVars == <<orchestrator, source, cache, pending, all_trades, report,
             prompt_performance>>

vars == <<cfg, pc, simVars, expVars, runVars>>

\* Python's None and a present value.
None == <<>>
Some(x) == <<x>>
Val(o) == o[1]

\* ------------------------------------------------------------- bounds
MaxStocks == 3      \* candidates in a basket
MaxCandles == 3     \* candles of the requested date in a frame
MaxLead == 1        \* rows of the day before at the head of a frame
MaxTrades == 3      \* trades in a list handed to calculate_expectancy
MaxSuggestions == 3 \* suggestions the Suggestion Source returns for a day

\* ------------------------------------------------------------- helpers
Min(a, b) == IF a <= b THEN a ELSE b
Abs(a) == IF a < 0 THEN -a ELSE a

\* math.floor / int() of the rational n/d, d > 0.
Floor(n, d) == n \div d

\* Python's round(x, 2) of the rational n/d (d > 0) taken in the unit of the
\* result: the nearest integer, a tie going to the even one.
Round(n, d) ==
    LET q == n \div d
        r == n - q * d
    IN  IF 2 * r < d THEN q
        ELSE IF 2 * r > d THEN q + 1
        ELSE IF q % 2 = 0 THEN q ELSE q + 1

RECURSIVE SumSeq(_)
SumSeq(s) == IF s = <<>> THEN 0 ELSE Head(s) + SumSeq(Tail(s))

\* ------------------------------------------------------------- allocator
\* StockAllocator.__init__: the fields read from the configuration.
total_capital == cfg.daily_capital

\* STEP 1: total_confidence.
total_confidence(ss) == SumSeq([i \in 1..Len(ss) |-> ss[i].confidence])

\* STEP 1: the weight of a stock, as the fraction num/den.
\* (variant: the confidence taken as a percentage, not normalised)
WeightDivByHundred(stock, ss) == [num |-> stock.confidence, den |-> 100]

\* (variant: the confidence taken relative to the first candidate's)
WeightOverFirst(stock, ss) ==
    IF ss[1].confidence > 0
    THEN [num |-> stock.confidence, den |-> ss[1].confidence]
    ELSE [num |-> 1, den |-> Len(ss)]

Weight(stock, ss) ==
    IF total_confidence(ss) > 0
    THEN [num |-> stock.confidence, den |-> total_confidence(ss)]
    ELSE [num |-> 1, den |-> Len(ss)]

\* STEP 3: stop_loss, in centipaise.
StopLoss(stock) ==
    IF stock.bias = "BULLISH"
    THEN stock.entry_price * (100 - cfg.stop_loss_percent)
    ELSE stock.entry_price * (100 + cfg.stop_loss_percent)

\* STEP 3: target, in centipaise.
Target(stock) ==
    IF stock.bias = "BULLISH"
    THEN stock.entry_price * 100
         + (stock.entry_price * 100 - StopLoss(stock)) * cfg.risk_reward_ratio
    ELSE stock.entry_price * 100
         - (StopLoss(stock) - stock.entry_price * 100) * cfg.risk_reward_ratio

\* STEP 4: risk_per_share, in centipaise.
RiskPerShare(stock) == Abs(stock.entry_price * 100 - StopLoss(stock))

\* STEPS 2, 4 and 5: loss_cap = total_capital * basket_loss_percent/100 * weight
\* (rupees), raw_quantity = loss_cap / risk_per_share, then the capital cap
\* max_capital_per_stock / entry, the floor and the one-share rule.  floor(min(a,
\* b)) is min(floor a, floor b), so each quotient is floored on its own.
\*   loss_cap in centipaise        = total_capital * basket_loss_percent * 100 * num/den
\*   max_capital_per_stock in paise = total_capital * capital_cap_percent
MaxCapitalPerStock == total_capital * cfg.capital_cap_percent

FlooredRawQuantity(stock, w) ==
    IF RiskPerShare(stock) > 0
    THEN Floor(total_capital * cfg.basket_loss_percent * 100 * w.num,
               w.den * RiskPerShare(stock))
    ELSE 0

\* (variant: the capital cap left out)
Step5QuantityNoCap(stock, w) ==
    LET floored_qty == FlooredRawQuantity(stock, w)
    IN  IF floored_qty > 0 THEN floored_qty ELSE 1

\* (variant: the floor kept when it is 0, no single share forced)
Step5QuantityFloorOnly(stock, w) ==
    Min(FlooredRawQuantity(stock, w),
        IF stock.entry_price > 0
        THEN Floor(MaxCapitalPerStock, stock.entry_price) ELSE 0)

Step5Quantity(stock, w) ==
    LET floored_qty ==
            Min(FlooredRawQuantity(stock, w),
                IF stock.entry_price > 0
                THEN Floor(MaxCapitalPerStock, stock.entry_price) ELSE 0)
    IN  IF floored_qty > 0 THEN floored_qty
        ELSE IF stock.entry_price <= MaxCapitalPerStock THEN 1 ELSE 0

\* The basket after step 5: each stock's entry_price and quantity.
Step5Basket(ss) ==
    [i \in 1..Len(ss) |->
        [entry_price |-> ss[i].entry_price,
         quantity |-> Step5Quantity(ss[i], Weight(ss[i], ss))]]

\* STEP 6: capital_used, in paise, of a list of [quantity, entry_price].
CapitalUsed(qs) == SumSeq([i \in 1..Len(qs) |-> qs[i].quantity * qs[i].entry_price])

\* STEP 6: whether the scaling branch runs.
NeedsScaling(capital_used) == capital_used > total_capital * 100

\* STEP 6: math.floor(quantity * scale_factor), scale_factor = total_capital /
\* capital_used.
\* (variant: the scaling left out)
ScaledNever(quantity, capital_used) == quantity

ScaledQuantity(quantity, capital_used) ==
    IF NeedsScaling(capital_used)
    THEN Floor(quantity * total_capital * 100, capital_used)
    ELSE quantity

\* allocate_capital: steps 1-7 and the filter of zero quantities.  The steps
\* write their results into the candidate's own dictionary, so a position keeps
\* every other key the caller put in the candidate.
allocate_capital(ss) ==
    IF Len(ss) = 0 THEN <<>>
    ELSE
    LET step5 == Step5Basket(ss)
        capital_used == CapitalUsed(step5)
        final == [i \in 1..Len(ss) |->
                    LET q == ScaledQuantity(step5[i].quantity, capital_used)
                    IN  ss[i] @@
                        [entry_price |-> ss[i].entry_price,
                         confidence |-> ss[i].confidence,
                         bias |-> ss[i].bias,
                         weight |-> Weight(ss[i], ss),
                         stop_loss |-> StopLoss(ss[i]),
                         target |-> Target(ss[i]),
                         quantity |-> q,
                         capital_allocated |-> q * ss[i].entry_price,
                         max_loss |-> q * RiskPerShare(ss[i]),
                         target_profit |->
                             q * Abs(Target(ss[i]) - ss[i].entry_price * 100)]]
    IN  SelectSeq(final, LAMBDA s : s.quantity > 0)

\* validate_allocation: total_risk > expected_max_loss * 1.1, both in
\* centipaise.
\* (variant: no tolerance)
ExceedsWithoutTolerance(total_risk, expected_max_loss) ==
    total_risk > expected_max_loss

ExceedsTolerance(total_risk, expected_max_loss) ==
    total_risk * 10 > expected_max_loss * 11

\* validate_allocation: the dictionary returned.  capital_used is in paise,
\* total_risk and total_target in centipaise; each error string stands without
\* the amounts it quotes.  The method reads its argument and writes nothing to
\* it.
validate_allocation(allocated_stocks) ==
    IF Len(allocated_stocks) = 0
    THEN [valid |-> FALSE, capital_used |-> 0, total_risk |-> 0,
          total_target |-> 0, errors |-> <<"No stocks allocated">>]
    ELSE
    LET n == Len(allocated_stocks)
        capital_used == SumSeq([i \in 1..n |-> allocated_stocks[i].capital_allocated])
        total_risk == SumSeq([i \in 1..n |-> allocated_stocks[i].max_loss])
        total_target == SumSeq([i \in 1..n |-> allocated_stocks[i].target_profit])
        expected_max_loss == total_capital * cfg.basket_loss_percent * 100
        errors ==
            (IF capital_used > total_capital * 100
             THEN <<"Capital used exceeds total capital">> ELSE <<>>)
            \o (IF ExceedsTolerance(total_risk, expected_max_loss)
                THEN <<"Total risk exceeds expected max loss">> ELSE <<>>)
    IN  [valid |-> Len(errors) = 0,
         capital_used |-> capital_used,
         capital_remaining |-> total_capital * 100 - capital_used,
         total_risk |-> total_risk,
         total_target |-> total_target,
         actual_risk_reward |->
             IF total_risk > 0 THEN [num |-> total_target, den |-> total_risk]
             ELSE [num |-> 0, den |-> 1],
         utilization_percent |->
             IF total_capital > 0
             THEN [num |-> capital_used, den |-> total_capital]
             ELSE [num |-> 0, den |-> 1],
         errors |-> errors]

\* ------------------------------------------------------------- expectancy
\* calculate_expectancy computes on floats; the model computes the same
\* expressions on fractions num/den, den > 0, net_pnl counted in paise.
Rat(n, d) == [num |-> n, den |-> d]
RatMul(a, b) == Rat(a.num * b.num, a.den * b.den)
RatSub(a, b) == Rat(a.num * b.den - b.num * a.den, a.den * b.den)
RatAbs(a) == Rat(Abs(a.num), a.den)
RatEq(a, b) == a.num * b.den = b.num * a.den
RatLess(a, b) == a.num * b.den < b.num * a.den

\* wins and losses: the net_pnl of the trades with net_pnl > 0, < 0, in list
\* order.
Wins(ts) ==
    LET kept == SelectSeq(ts, LAMBDA t : t.net_pnl > 0)
    IN  [i \in 1..Len(kept) |-> kept[i].net_pnl]

Losses(ts) ==
    LET kept == SelectSeq(ts, LAMBDA t : t.net_pnl < 0)
    IN  [i \in 1..Len(kept) |-> kept[i].net_pnl]

\* max(0, expectancy).
\* (variant: the expectancy passed through unclipped)
SignalStrengthUnclipped(expectancy) == expectancy

SignalStrength(expectancy) ==
    IF RatLess(Rat(0, 1), expectancy) THEN expectancy ELSE Rat(0, 1)

calculate_expectancy(ts) ==
    IF Len(ts) = 0
    THEN [win_rate |-> Rat(0, 1), avg_win |-> Rat(0, 1), avg_loss |-> Rat(0, 1),
          expectancy |-> Rat(0, 1), signal_strength |-> Rat(0, 1),
          total_trades |-> 0]
    ELSE
    LET wins == Wins(ts)
        losses == Losses(ts)
        win_rate == Rat(Len(wins), Len(ts))
        loss_rate == Rat(Len(losses), Len(ts))
        avg_win == IF Len(wins) > 0 THEN Rat(SumSeq(wins), Len(wins))
                   ELSE Rat(0, 1)
        avg_loss == IF Len(losses) > 0
                    THEN RatAbs(Rat(SumSeq(losses), Len(losses)))
                    ELSE Rat(0, 1)
        expectancy == RatSub(RatMul(win_rate, avg_win),
                             RatMul(loss_rate, avg_loss))
    IN  [win_rate |-> RatMul(win_rate, Rat(100, 1)),
         avg_win |-> avg_win,
         avg_loss |-> avg_loss,
         expectancy |-> expectancy,
         signal_strength |-> SignalStrength(expectancy),
         total_trades |-> Len(ts),
         wins |-> Len(wins),
         losses |-> Len(losses)]

\* ------------------------------------------------------------- reporter
\* RealExcelReporter._create_prompt_performance.  net_pnl and invested_amount
\* are in paise; the sheet's amounts are rounded to paise, WinRate% to a tenth
\* of a percent.
\* df_trades.groupby('prompt_type'): the keys, and the rows of one key in
\* list order.
PromptTypes(ts) == { ts[i].prompt_type : i \in 1..Len(ts) }

Group(ts, prompt_type) == SelectSeq(ts, LAMBDA t : t.prompt_type = prompt_type)

\* group.groupby('date')['net_pnl'].sum(): the dates, and the sum of one date.
TradeDates(ts) == { ts[i].date : i \in 1..Len(ts) }

DailyPnl(ts, date) ==
    LET day == SelectSeq(ts, LAMBDA t : t.date = date)
    IN  SumSeq([i \in 1..Len(day) |-> day[i].net_pnl])

\* group[group['net_pnl'] > 0]['net_pnl'] and its counterpart below 0.
WinSeries(group) ==
    LET kept == SelectSeq(group, LAMBDA t : t.net_pnl > 0)
    IN  [i \in 1..Len(kept) |-> kept[i].net_pnl]

LossSeries(group) ==
    LET kept == SelectSeq(group, LAMBDA t : t.net_pnl < 0)
    IN  [i \in 1..Len(kept) |-> kept[i].net_pnl]

\* expectancy = (win_rate/100 * avg_win) - (loss_rate * avg_loss).
\* (variant: the loss rate taken as the complement of the win rate)
ExpectancyComplement(win_rate, avg_win, loss_rate, avg_loss) ==
    RatSub(RatMul(RatMul(win_rate, Rat(1, 100)), avg_win),
           RatMul(RatSub(Rat(1, 1), RatMul(win_rate, Rat(1, 100))), avg_loss))

Expectancy(win_rate, avg_win, loss_rate, avg_loss) ==
    RatSub(RatMul(RatMul(win_rate, Rat(1, 100)), avg_win),
           RatMul(loss_rate, avg_loss))

\* The statistics of one group before rounding (lines 216-244); the same
\* expressions give the overall row from all trades (lines 267-278).
GroupStats(group) ==
    LET daily_pnl == [d \in TradeDates(group) |-> DailyPnl(group, d)]
        total_trades == Len(group)
        wins == WinSeries(group)
        losses == LossSeries(group)
        winning_trades == Len(wins)
        losing_trades == Len(losses)
        win_rate == IF total_trades > 0
                    THEN Rat(winning_trades * 100, total_trades) ELSE Rat(0, 1)
        avg_win == IF Len(wins) > 0 THEN Rat(SumSeq(wins), Len(wins))
                   ELSE Rat(0, 1)
        avg_loss == IF Len(losses) > 0
                    THEN RatAbs(Rat(SumSeq(losses), Len(losses)))
                    ELSE Rat(0, 1)
        loss_rate == IF total_trades > 0 THEN Rat(losing_trades, total_trades)
                     ELSE Rat(0, 1)
        expectancy == Expectancy(win_rate, avg_win, loss_rate, avg_loss)
    IN  [total_trades |-> total_trades,
         total_days |-> Cardinality(DOMAIN daily_pnl),
         profitable_days |->
             Cardinality({ d \in DOMAIN daily_pnl : daily_pnl[d] > 0 }),
         losing_days |->
             Cardinality({ d \in DOMAIN daily_pnl : daily_pnl[d] < 0 }),
         win_rate |-> win_rate,
         avg_win |-> avg_win,
         avg_loss |-> avg_loss,
         expectancy |-> expectancy,
         signal_strength |-> SignalStrength(expectancy),
         total_invested |->
             SumSeq([i \in 1..Len(group) |-> group[i].invested_amount]),
         total_profit |-> SumSeq(wins),
         total_loss |-> Abs(SumSeq(losses)),
         net_outcome |-> SumSeq([i \in 1..Len(group) |-> group[i].net_pnl])]

\* The row appended to performance, and overall_row: the statistics rounded.
PerformanceRow(prompt_type, group) ==
    LET st == GroupStats(group)
    IN  [PromptType |-> prompt_type,
         TotalTrades |-> st.total_trades,
         WinRate |-> Round(st.win_rate.num * 10, st.win_rate.den),
         TotalDays |-> st.total_days,
         ProfitableDays |-> st.profitable_days,
         LosingDays |-> st.losing_days,
         AvgWin |-> Round(st.avg_win.num, st.avg_win.den),
         AvgLoss |-> Round(st.avg_loss.num, st.avg_loss.den),
         Expectancy |-> Round(st.expectancy.num, st.expectancy.den),
         SignalStrength |->
             Round(st.signal_strength.num, st.signal_strength.den),
         TotalInvested |-> st.total_invested,
         TotalProfit |-> st.total_profit,
         TotalLoss |-> st.total_loss,
         NetProfitLoss |-> st.net_outcome]

OverallLabel == "OVERALL (All Prompts)"

\* df.sort_values('SignalStrength', ascending=False): the order of two rows
\* that follow each other.
\* (variant: ascending)
InOrderAscending(first, second) == first.SignalStrength <= second.SignalStrength

InOrder(first, second) == first.SignalStrength >= second.SignalStrength

\* The frames sort_values may return: the rows in an order by SignalStrength.
\* The sort is quicksort, which fixes no order between rows of equal
\* SignalStrength.
SortValues(rows) ==
    { df \in [1..Cardinality(rows) -> rows] :
        /\ \A i, j \in 1..Cardinality(rows) : i # j => df[i] # df[j]
        /\ \A i \in 1..(Cardinality(rows) - 1) : InOrder(df[i], df[i + 1]) }

\* (variant: the overall row left out)
AppendNothing(df, overall_row) == df

\* pd.concat([df, pd.DataFrame([overall_row])]).
Concat(df, overall_row) == df \o <<overall_row>>

\* _create_prompt_performance: the frames it may write, no row for no trade.
create_prompt_performance(ts) ==
    IF Len(ts) = 0 THEN { <<>> }
    ELSE { Concat(df, PerformanceRow(OverallLabel, ts)) :
             df \in SortValues({ PerformanceRow(p, Group(ts, p)) :
                                   p \in PromptTypes(ts) }) }

\* ------------------------------------------------------------- candle source
\* df.reset_index(): row i of the provider's frame gets the label i, counted
\* from 0.
ResetIndex(df) ==
    [i \in 1..Len(df) |->
        [label |-> i - 1, Date |-> df[i].Date, Time |-> df[i].Time,
         Open |-> df[i].Open, High |-> df[i].High, Low |-> df[i].Low,
         Close |-> df[i].Close]]

\* df[df['Date'] == date]: the rows of the requested date, each keeping its label.
FilterDate(df, date) == SelectSeq(df, LAMBDA r : r.Date = date)

\* _validate_data: High >= Low, Open, Close and Low <= Open, Close on every row.
ValidateData(df) ==
    /\ Len(df) > 0
    /\ \A i \in 1..Len(df) :
          /\ df[i].High >= df[i].Low
          /\ df[i].High >= df[i].Open
          /\ df[i].High >= df[i].Close
          /\ df[i].Low <= df[i].Open
          /\ df[i].Low <= df[i].Close

\* fetch_intraday_data without its cache: None for an empty frame, an empty
\* filter result or invalid data, else the filtered frame.
fetch_intraday_data(df, date) ==
    IF Len(df) = 0 THEN None
    ELSE LET kept == FilterDate(ResetIndex(df), date)
         IN  IF Len(kept) = 0 THEN None
             ELSE IF ~ValidateData(kept) THEN None
             ELSE Some(kept)

\* candle_data.iloc[idx]: the row at position idx, counted from 0.
Iloc(df, idx) == df[idx + 1]

\* ------------------------------------------------------------- execution simulator
\* calculate_entry: the first candle in iteration order whose time >=
\* entry_start; 0 when there is none, else its position counted from 1.
\* (variant: the comparison taken strict, time > entry_start)
RECURSIVE FirstStrictlyAfter(_, _, _)
FirstStrictlyAfter(df, i, start) ==
    IF i > Len(df) THEN 0
    ELSE IF df[i].Time > start THEN i
    ELSE FirstStrictlyAfter(df, i + 1, start)

RECURSIVE FirstAtOrAfter(_, _, _)
FirstAtOrAfter(df, i, start) ==
    IF i > Len(df) THEN 0
    ELSE IF df[i].Time >= start THEN i
    ELSE FirstAtOrAfter(df, i + 1, start)

\* calculate_entry: base_price * (1 +- slippage_percent / 100), in millipaise.
EntrySlippage(base_price, b) ==
    IF b = "BULLISH"
    THEN base_price * (1000 + cfg.slippage_permille)
    ELSE base_price * (1000 - cfg.slippage_permille)

\* calculate_entry.  entry_price and invested_amount are rounded to paise;
\* stop_loss and target are rounded to paise and held in centipaise.
calculate_entry(df, b) ==
    LET k == FirstAtOrAfter(df, 1, cfg.entry_start_time)
    IN  IF k = 0 THEN None
        ELSE
        LET entry_candle == df[k]
            entry_price == EntrySlippage(entry_candle.Open, b)
            quantity == Floor(cfg.capital_per_trade * 100 * 1000, entry_price)
            stop_loss == IF b = "BULLISH"
                         THEN entry_price * (100 - cfg.stop_loss_percent)
                         ELSE entry_price * (100 + cfg.stop_loss_percent)
            target == IF b = "BULLISH"
                      THEN entry_price * (100 + cfg.target_percent)
                      ELSE entry_price * (100 - cfg.target_percent)
            invested_amount == entry_price * quantity
        IN  IF quantity = 0 THEN None
            ELSE Some([entry_time |-> entry_candle.Time,
                       entry_price |-> Round(entry_price, 1000),
                       quantity |-> quantity,
                       bias |-> b,
                       stop_loss |-> Round(stop_loss, 100000) * 100,
                       target |-> Round(target, 100000) * 100,
                       invested_amount |-> Round(invested_amount, 1000)])

\* simulate_trade: entry_idx, the label of the first row whose time equals
\* entry_time; -1 stands for None.
\* (variant: the first row at or after entry_time taken for the entry candle)
RECURSIVE EntryIdxAtOrAfter(_, _, _)
EntryIdxAtOrAfter(df, i, entry_time) ==
    IF i > Len(df) THEN -1
    ELSE IF df[i].Time >= entry_time THEN df[i].label
    ELSE EntryIdxAtOrAfter(df, i + 1, entry_time)

RECURSIVE EntryIdx(_, _, _)
EntryIdx(df, i, entry_time) ==
    IF i > Len(df) THEN -1
    ELSE IF df[i].Time = entry_time THEN df[i].label
    ELSE EntryIdx(df, i + 1, entry_time)

\* simulate_trade: the first position the exit scan reads,
\* range(entry_idx + 1, len(candle_data)).
ScanStart(entry_idx) == entry_idx + 1

\* simulate_trade, the body of the scan for one candle: the exit it triggers
\* (price in centipaise), None if it triggers none.
ForceExit(candle) ==
    Some([exit_price |-> candle.Close * 100, exit_time |-> candle.Time,
          exit_reason |-> "FORCE_EXIT_EOD"])

\* (variant: the stop exit priced at the target)
StopExitAtTarget(candle, ed) ==
    Some([exit_price |-> ed.target, exit_time |-> candle.Time,
          exit_reason |-> "STOP_LOSS"])

StopExit(candle, ed) ==
    Some([exit_price |-> ed.stop_loss, exit_time |-> candle.Time,
          exit_reason |-> "STOP_LOSS"])

TargetExit(candle, ed) ==
    Some([exit_price |-> ed.target, exit_time |-> candle.Time,
          exit_reason |-> "TARGET"])

StopCrossed(candle, ed) ==
    IF ed.bias = "BULLISH" THEN candle.Low * 100 <= ed.stop_loss
    ELSE candle.High * 100 >= ed.stop_loss

TargetCrossed(candle, ed) ==
    IF ed.bias = "BULLISH" THEN candle.High * 100 >= ed.target
    ELSE candle.Low * 100 <= ed.target

\* (variant: the target tested before the stop)
CandleExitTargetFirst(candle, ed) ==
    IF candle.Time >= cfg.force_exit_time THEN ForceExit(candle)
    ELSE IF TargetCrossed(candle, ed) THEN TargetExit(candle, ed)
    ELSE IF StopCrossed(candle, ed) THEN StopExit(candle, ed)
    ELSE None

\* (variant: the force exit tested after the stop and the target)
CandleExitForceLast(candle, ed) ==
    IF StopCrossed(candle, ed) THEN StopExit(candle, ed)
    ELSE IF TargetCrossed(candle, ed) THEN TargetExit(candle, ed)
    ELSE IF candle.Time >= cfg.force_exit_time THEN ForceExit(candle)
    ELSE None

CandleExit(candle, ed) ==
    IF candle.Time >= cfg.force_exit_time THEN ForceExit(candle)
    ELSE IF StopCrossed(candle, ed) THEN StopExit(candle, ed)
    ELSE IF TargetCrossed(candle, ed) THEN TargetExit(candle, ed)
    ELSE None

\* simulate_trade, the scan for idx in range(idx, len(candle_data)): the exit
\* found and the positions read.
RECURSIVE ExitScan(_, _, _)
ExitScan(idx, ed, df) ==
    IF idx >= Len(df) THEN [exit |-> None, visited |-> {}]
    ELSE LET hit == CandleExit(Iloc(df, idx), ed)
         IN  IF hit # None THEN [exit |-> hit, visited |-> {idx}]
             ELSE LET rest == ExitScan(idx + 1, ed, df)
                  IN  [exit |-> rest.exit, visited |-> rest.visited \cup {idx}]

\* simulate_trade: no exit found, force exit at candle_data.iloc[-1].
\* (variant: the fallback exit taken at the entry candle)
FallbackExitAtEntry(ed, df) ==
    Some([exit_price |-> ed.entry_price * 100, exit_time |-> ed.entry_time,
          exit_reason |-> "FORCE_EXIT_EOD"])

FallbackExit(ed, df) == ForceExit(df[Len(df)])

\* simulate_trade: slippage on exit, centipaise to micropaise.
\* (variant: the signs of the entry slippage reused on exit)
ExitSlippageInFavour(exit_price, b) ==
    IF b = "BULLISH"
    THEN exit_price * (1000 + cfg.slippage_permille)
    ELSE exit_price * (1000 - cfg.slippage_permille)

ExitSlippage(exit_price, b) ==
    IF b = "BULLISH"
    THEN exit_price * (1000 - cfg.slippage_permille)
    ELSE exit_price * (1000 + cfg.slippage_permille)

\* simulate_trade: the outcome label, from the unrounded net_pnl.
ProfitOrLoss(net_pnl) ==
    IF net_pnl > 0 THEN "PROFIT" ELSE IF net_pnl < 0 THEN "LOSS" ELSE "BREAKEVEN"

\* simulate_trade: the record built from the exit found (lines 172-205).
TradeRecord(ed, ex) ==
    LET exit_price == ExitSlippage(ex.exit_price, ed.bias)
        gross_pnl == IF ed.bias = "BULLISH"
                     THEN (exit_price - ed.entry_price * 100000) * ed.quantity
                     ELSE (ed.entry_price * 100000 - exit_price) * ed.quantity
        transaction_cost == ed.invested_amount * 2 * cfg.transaction_cost_bp * 10
        net_pnl == gross_pnl - transaction_cost
    IN  [bias |-> ed.bias,
         entry_time |-> ed.entry_time,
         entry_price |-> ed.entry_price,
         exit_time |-> ex.exit_time,
         exit_price |-> Round(exit_price, 100000),
         quantity |-> ed.quantity,
         invested_amount |-> ed.invested_amount,
         stop_loss |-> Round(ed.stop_loss, 100),
         target |-> Round(ed.target, 100),
         exit_reason |-> ex.exit_reason,
         gross_pnl |-> Round(gross_pnl, 100000),
         transaction_cost |-> Round(transaction_cost, 100000),
         net_pnl |-> Round(net_pnl, 100000),
         profit_or_loss |-> ProfitOrLoss(net_pnl)]

\* simulate_trade: the record and the positions the scan read; no record when
\* the entry candle is not found.
simulate_trade(ed, df) ==
    LET entry_idx == EntryIdx(df, 1, ed.entry_time)
    IN  IF entry_idx = -1 THEN [trade |-> None, visited |-> {}]
        ELSE
        LET scan == ExitScan(ScanStart(entry_idx), ed, df)
            ex == IF scan.exit = None THEN FallbackExit(ed, df) ELSE scan.exit
        IN  [trade |-> Some(TradeRecord(ed, Val(ex))), visited |-> scan.visited]

\* _backtest_single_day of the allocating orchestrator, for the one candidate
\* of a day with one suggestion: the candidate built from entry_details.
CandidateOf(ed, conf) ==
    [entry_price |-> ed.entry_price, confidence |-> conf, bias |-> ed.bias]

\* The override of entry_details with the allocated position's quantity,
\* stop_loss and target, and the capital_allocated key set beside them;
\* invested_amount stays as calculate_entry left it.
OverrideEntry(ed, stock) ==
    [capital_allocated |-> stock.capital_allocated]
    @@ [ed EXCEPT !.quantity = stock.quantity, !.stop_loss = stock.stop_loss,
                  !.target = stock.target]

\* ------------------------------------------------------------- configurations
\* The shipped ALGORITHM_CONFIG has daily_capital 50000, capital_per_trade
\* 10000, stop_loss_percent 2, target_percent 4, risk_reward_ratio 2, slippage
\* 0.1 % and cost 0.05 %; basket_loss_percent and capital_cap_percent take
\* the allocator's defaults 2 and 30.  The model draws the capital small, so
\* that quantities stay small, and lets the percentages vary.  The shipped
\* MAX_STOCKS_LIMIT is 10 and max_positions_per_day 5; the model keeps their
\* order with 2 and 1.
\*   capital 500 rupees; (basket_loss_percent, stop_loss_percent) below, equal
\*   to and above each other; capital_cap_percent 30 or 60.
Config(t, l, s, c, slip, tc) ==
    [daily_capital |-> t, basket_loss_percent |-> l, stop_loss_percent |-> s,
     capital_cap_percent |-> c, risk_reward_ratio |-> 2,
     capital_per_trade |-> 20, target_percent |-> 4,
     slippage_permille |-> slip, transaction_cost_bp |-> tc,
     entry_start_time |-> 1, force_exit_time |-> 3,
     max_stocks_limit |-> 2, max_positions_per_day |-> 1]

LossAndStop == {<<1, 2>>, <<2, 1>>, <<2, 2>>}

AllocConfigs ==
    { Config(500, ls[1], ls[2], c, 1, 5) : ls \in LossAndStop, c \in {30, 60} }

\* Candidates: confidence in [0, 100], entry price in paise.
Candidates ==
    [entry_price : {1000, 30000}, confidence : {0, 30, 90},
     bias : {"BULLISH", "BEARISH"}]

CandidateLists == UNION { [1..n -> Candidates] : n \in 0..MaxStocks }

\* ------------------------------------------------------------- allocator run
InitAlloc ==
    /\ cfg \in AllocConfigs
    /\ stocks \in CandidateLists
    /\ pc = "alloc_input"
    /\ allocated = None
    /\ raw_df = <<>>
    /\ candle_data = None
    /\ bias = "BULLISH"
    /\ confidence = 0
    /\ entry_details = None
    /\ scanned = {}
    /\ trade = None
    /\ trades = <<>>
    /\ stats = None
    /\ validation = None
    /\ orchestrator = "real"
    /\ source = <<>>
    /\ cache = <<>>
    /\ pending = {}
    /\ all_trades = <<>>
    /\ report = None
    /\ prompt_performance = None

AllocateCapital ==
    /\ pc = "alloc_input"
    /\ allocated' = Some(allocate_capital(stocks))
    /\ pc' = "alloc_done"
    /\ UNCHANGED <<cfg, stocks, raw_df, candle_data, bias, confidence,
                   entry_details, scanned, trade, expVars, runVars>>

NextAlloc == AllocateCapital

SpecAlloc == InitAlloc /\ [][NextAlloc]_vars

\* The allocator on baskets of long cheap stocks and a short dear one, for the
\* comparison of a basket with each of its reorderings.
OrderCandidates ==
    { c \in Candidates : c.bias = "BULLISH" <=> c.entry_price = 1000 }

OrderLists == UNION { [1..n -> OrderCandidates] : n \in 0..MaxStocks }

InitOrder ==
    /\ cfg \in AllocConfigs
    /\ stocks \in OrderLists
    /\ pc = "alloc_input"
    /\ allocated = None
    /\ raw_df = <<>>
    /\ candle_data = None
    /\ bias = "BULLISH"
    /\ confidence = 0
    /\ entry_details = None
    /\ scanned = {}
    /\ trade = None
    /\ trades = <<>>
    /\ stats = None
    /\ validation = None
    /\ orchestrator = "real"
    /\ source = <<>>
    /\ cache = <<>>
    /\ pending = {}
    /\ all_trades = <<>>
    /\ report = None
    /\ prompt_performance = None

SpecOrder == InitOrder /\ [][NextAlloc]_vars

\* ------------------------------------------------------------- validation call
\* validate_allocation on what allocate_capital returned, or on any list of up
\* to MaxStocks positions: capital_allocated of 100, 250 or 300 rupees and
\* max_loss of 3, 5 or 5.50 rupees, target_profit twice the max_loss.
GivenPositions ==
    { [capital_allocated |-> c, max_loss |-> m,
       target_profit |-> m * cfg.risk_reward_ratio] :
        c \in {10000, 25000, 30000}, m \in {30000, 50000, 55000} }

GivenAllocations == UNION { [1..n -> GivenPositions] : n \in 0..MaxStocks }

InitValidate ==
    /\ cfg \in AllocConfigs
    /\ \/ /\ pc = "alloc_input"
          /\ stocks \in OrderLists
          /\ allocated = None
       \/ /\ pc = "alloc_done"
          /\ stocks = <<>>
          /\ allocated \in { Some(a) : a \in GivenAllocations }
    /\ validation = None
    /\ raw_df = <<>>
    /\ candle_data = None
    /\ bias = "BULLISH"
    /\ confidence = 0
    /\ entry_details = None
    /\ scanned = {}
    /\ trade = None
    /\ trades = <<>>
    /\ stats = None
    /\ orchestrator = "real"
    /\ source = <<>>
    /\ cache = <<>>
    /\ pending = {}
    /\ all_trades = <<>>
    /\ report = None
    /\ prompt_performance = None

\* validate_allocation(allocated_stocks): the list as it was handed in is
\* kept beside the result.
ValidateAllocation ==
    /\ pc = "alloc_done"
    /\ validation' = Some([allocated_stocks |-> Val(allocated),
                           result |-> validate_allocation(Val(allocated))])
    /\ pc' = "validated"
    /\ UNCHANGED <<cfg, trades, stats, simVars, runVars>>

NextValidate ==
    \/ AllocateCapital
    \/ ValidateAllocation

SpecValidate == InitValidate /\ [][NextValidate]_vars

\* ------------------------------------------------------------- expectancy call
\* Trade lists: net_pnl in paise, losses, a breakeven trade and wins.
NetPnlValues == {-200, -100, 0, 100, 300}

TradeLists == UNION { [1..n -> [net_pnl : NetPnlValues]] : n \in 0..MaxTrades }

InitExp ==
    /\ cfg = Config(500, 2, 2, 30, 1, 5)
    /\ trades \in TradeLists
    /\ stats = None
    /\ validation = None
    /\ pc = "exp_input"
    /\ stocks = <<>>
    /\ allocated = None
    /\ raw_df = <<>>
    /\ candle_data = None
    /\ bias = "BULLISH"
    /\ confidence = 0
    /\ entry_details = None
    /\ scanned = {}
    /\ trade = None
    /\ orchestrator = "real"
    /\ source = <<>>
    /\ cache = <<>>
    /\ pending = {}
    /\ all_trades = <<>>
    /\ report = None
    /\ prompt_performance = None

CalculateExpectancy ==
    /\ pc = "exp_input"
    /\ stats' = Some(calculate_expectancy(trades))
    /\ pc' = "exp_done"
    /\ UNCHANGED <<cfg, trades, validation, simVars, runVars>>

NextExp == CalculateExpectancy

SpecExp == InitExp /\ [][NextExp]_vars

\* ------------------------------------------------------------- one symbol, one day
\* Candle shapes, prices in paise.  Around an open of 10 rupees: a quiet
\* candle, a dip through the stop of a long, a rally through its target, a
\* candle through both.  A penny stock at 10 paise: a flat candle and one a
\* paisa either side.  A stock at 30 rupees, above capital_per_trade.  A series
\* is of one stock, so of one family.
Shape(o, h, l, c) == [Open |-> o, High |-> h, Low |-> l, Close |-> c]

ShapeFamilies ==
    { { Shape(1000, 1003, 1000, 1003), Shape(1000, 1000, 950, 1000),
        Shape(1000, 1050, 1000, 1050), Shape(1000, 1050, 950, 1000) },
      { Shape(10, 10, 10, 10), Shape(10, 11, 9, 10) },
      { Shape(3000, 3000, 3000, 3000) } }

TimeSlots == 0..4

Row(date, time, sh) ==
    [Date |-> date, Time |-> time, Open |-> sh.Open, High |-> sh.High,
     Low |-> sh.Low, Close |-> sh.Close]

\* The frames the provider may return for the requested date: up to MaxLead
\* rows of the day before, then up to MaxCandles candles of the date, times
\* strictly increasing.
IncreasingTimes(n) ==
    { f \in [1..n -> TimeSlots] : \A i \in 1..(n - 1) : f[i] < f[i + 1] }

DayFrames(fam) ==
    UNION { { [i \in 1..n |-> Row("day", ts[i], sh[i])] :
                ts \in IncreasingTimes(n), sh \in [1..n -> fam] } :
            n \in 0..MaxCandles }

\* The rows of the day before: the last slot, flat at the family's open.
LeadRows(k, fam) ==
    LET o == (CHOOSE s \in fam : TRUE).Open
    IN  [i \in 1..k |-> Row("prev", 4, Shape(o, o, o, o))]

RawFrames ==
    UNION { { LeadRows(k, fam) \o d : k \in 0..MaxLead, d \in DayFrames(fam) } :
            fam \in ShapeFamilies }

SimConfigs == { Config(100, 2, 2, 30, 1, 5) }

InitSim ==
    /\ cfg \in SimConfigs
    /\ raw_df \in RawFrames
    /\ bias \in {"BULLISH", "BEARISH"}
    /\ confidence = 90
    /\ pc = "fetch"
    /\ candle_data = None
    /\ entry_details = None
    /\ scanned = {}
    /\ trade = None
    /\ stocks = <<>>
    /\ allocated = None
    /\ trades = <<>>
    /\ stats = None
    /\ validation = None
    /\ orchestrator = "real"
    /\ source = <<>>
    /\ cache = <<>>
    /\ pending = {}
    /\ all_trades = <<>>
    /\ report = None
    /\ prompt_performance = None

\* _backtest_single_day: fetch the candles; an absent series ends the symbol.
FetchIntradayData ==
    /\ pc = "fetch"
    /\ candle_data' = fetch_intraday_data(raw_df, "day")
    /\ pc' = IF candle_data' = None THEN "done" ELSE "entry"
    /\ UNCHANGED <<cfg, stocks, allocated, raw_df, bias, confidence,
                   entry_details, scanned, trade, expVars, runVars>>

\* _backtest_single_day: calculate the entry; no entry ends the symbol.
CalculateEntry ==
    /\ pc = "entry"
    /\ entry_details' = calculate_entry(Val(candle_data), bias)
    /\ pc' = IF entry_details' = None THEN "done" ELSE "entered"
    /\ UNCHANGED <<cfg, stocks, allocated, raw_df, candle_data, bias,
                   confidence, scanned, trade, expVars, runVars>>

\* run_real_backtest._backtest_single_day: allocate and override the entry
\* details; an empty allocation ends the day.
AllocateAndOverride ==
    /\ pc = "entered"
    /\ stocks' = <<CandidateOf(Val(entry_details), confidence)>>
    /\ allocated' = Some(allocate_capital(stocks'))
    /\ IF Len(Val(allocated')) = 0
       THEN /\ pc' = "done"
            /\ UNCHANGED entry_details
       ELSE /\ pc' = "sized"
            /\ entry_details' =
                   Some(OverrideEntry(Val(entry_details), Val(allocated')[1]))
    /\ UNCHANGED <<cfg, raw_df, candle_data, bias, confidence, scanned, trade,
                   expVars, runVars>>

\* simulate_trade, called with the allocator's sizes (run_real_backtest) or with
\* calculate_entry's own (run_multi_timeframe).
SimulateTrade ==
    /\ pc \in {"entered", "sized"}
    /\ LET r == simulate_trade(Val(entry_details), Val(candle_data))
       IN  /\ trade' = r.trade
           /\ scanned' = r.visited
    /\ pc' = "done"
    /\ UNCHANGED <<cfg, stocks, allocated, raw_df, candle_data, bias,
                   confidence, entry_details, expVars, runVars>>

NextSim ==
    \/ FetchIntradayData
    \/ CalculateEntry
    \/ AllocateAndOverride
    \/ SimulateTrade

SpecSim == InitSim /\ [][NextSim]_vars

\* simulate_trade called on a series with entry details that calculate_entry
\* worked out on the series itself or on a single candle of the same stock at
\* any time slot, which the series may lack.
GivenEntries(df, b) ==
    LET o == df[1].Open
    IN  ({ calculate_entry(df, b) }
         \cup { calculate_entry(<<Row("day", t, Shape(o, o, o, o))>>, b) :
                  t \in TimeSlots })
        \ { None }

InitGiven ==
    /\ cfg \in SimConfigs
    /\ raw_df \in { f \in RawFrames : fetch_intraday_data(f, "day") # None }
    /\ candle_data = fetch_intraday_data(raw_df, "day")
    /\ bias \in {"BULLISH", "BEARISH"}
    /\ entry_details \in GivenEntries(Val(candle_data), bias)
    /\ confidence = 90
    /\ pc = "entered"
    /\ scanned = {}
    /\ trade = None
    /\ stocks = <<>>
    /\ allocated = None
    /\ trades = <<>>
    /\ stats = None
    /\ validation = None
    /\ orchestrator = "real"
    /\ source = <<>>
    /\ cache = <<>>
    /\ pending = {}
    /\ all_trades = <<>>
    /\ report = None
    /\ prompt_performance = None

NextGiven ==
    \/ AllocateAndOverride
    \/ SimulateTrade

SpecGiven == InitGiven /\ [][NextGiven]_vars

\* ------------------------------------------------------------- a day, a run
\* The provider behind the Candle Source (ticker.history), a function of
\* (symbol, date).  A trades on both dates, with a rally on d1 and a dip on d2,
\* where the provider also returns the last row of d1; B has candles on d1 and
\* none on d2; C has only a candle before entry_start_time on d1 and costs more
\* than capital_per_trade on d2; Z has a candle with open 0.
Quiet == Shape(1000, 1003, 1000, 1003)
Dip == Shape(1000, 1000, 950, 1000)
Rally == Shape(1000, 1050, 1000, 1050)

History(symbol, date) ==
    IF symbol = "A"
    THEN IF date = "d1"
         THEN <<Row("d1", 1, Quiet), Row("d1", 2, Rally), Row("d1", 3, Quiet)>>
         ELSE <<Row("d1", 4, Quiet), Row("d2", 1, Quiet), Row("d2", 2, Dip),
                Row("d2", 3, Quiet)>>
    ELSE IF symbol = "B"
    THEN IF date = "d1"
         THEN <<Row("d1", 1, Quiet), Row("d1", 3, Quiet)>>
         ELSE <<>>
    ELSE IF symbol = "C"
    THEN IF date = "d1"
         THEN <<Row("d1", 0, Quiet)>>
         ELSE <<Row("d2", 1, Shape(3000, 3000, 3000, 3000))>>
    ELSE <<Row(date, 1, Shape(0, 0, 0, 0))>>

\* YahooDataFetcher: cache_key = f"{symbol}_{date}_{self.candle_interval}".
candle_interval == "5m"

\* (variant: the date left out of the key)
CacheKeyWithoutDate(symbol, date) == <<symbol, candle_interval>>

CacheKey(symbol, date) == <<symbol, date, candle_interval>>

\* fetch_intraday_data with its cache c: the frame returned, None if absent,
\* and the cache afterwards.  Only a frame that passed the checks is cached.
CachedFetch(c, symbol, date) ==
    LET cache_key == CacheKey(symbol, date)
    IN  IF cache_key \in DOMAIN c
        THEN [data |-> Some(c[cache_key]), cache |-> c]
        ELSE LET df == fetch_intraday_data(History(symbol, date), date)
             IN  IF df = None THEN [data |-> None, cache |-> c]
                 ELSE [data |-> df, cache |-> c @@ (cache_key :> Val(df))]

\* calculate_entry raises ZeroDivisionError at capital_per_trade / entry_price
\* when the entry candle's open is 0.
EntryRaises(df, b) ==
    LET k == FirstAtOrAfter(df, 1, cfg.entry_start_time)
    IN  k # 0 /\ EntrySlippage(df[k].Open, b) = 0

\* _backtest_single_day: suggestions[:MAX_STOCKS_LIMIT].
\* (variant: the list left whole)
TruncateNever(suggestions) == suggestions

Truncate(suggestions) ==
    SubSeq(suggestions, 1, Min(Len(suggestions), cfg.max_stocks_limit))

\* _backtest_single_day: `continue`, the loop goes on with the next symbol.
\* (variant: the loop left, nothing of the day kept)
BreakLoop(rest) == [rest EXCEPT !.found = <<>>]

Continue(rest) == rest

\* _backtest_single_day, the loop over the suggestions from the i-th on: the
\* symbols found with candles and an entry, the cache afterwards, and whether
\* calculate_entry raised.
RECURSIVE SymbolLoop(_, _, _, _)
SymbolLoop(suggestions, i, date, c) ==
    IF i > Len(suggestions) THEN [found |-> <<>>, cache |-> c, raised |-> FALSE]
    ELSE
    LET suggestion == suggestions[i]
        fetched == CachedFetch(c, suggestion.symbol, date)
        rest == SymbolLoop(suggestions, i + 1, date, fetched.cache)
    IN  IF fetched.data = None THEN Continue(rest)
        ELSE IF EntryRaises(Val(fetched.data), suggestion.bias)
        THEN [found |-> <<>>, cache |-> fetched.cache, raised |-> TRUE]
        ELSE
        LET ed == calculate_entry(Val(fetched.data), suggestion.bias)
        IN  IF ed = None THEN Continue(rest)
            ELSE [rest EXCEPT !.found =
                     <<[suggestion |-> suggestion,
                        stock_data |-> Val(fetched.data),
                        entry_details |-> Val(ed)]>> \o @]

\* run_real_backtest: stocks_for_allocation.
StocksForAllocation(found) ==
    [i \in 1..Len(found) |->
        [symbol |-> found[i].suggestion.symbol,
         entry_price |-> found[i].entry_details.entry_price,
         confidence |-> found[i].suggestion.confidence,
         bias |-> found[i].suggestion.bias,
         stock_data |-> found[i].stock_data,
         entry_details |-> found[i].entry_details,
         ai_reason |-> found[i].suggestion.reason]]

\* simulate_trade's record with the date and the symbol it carries.
DatedTrade(ed, df, symbol, date) ==
    LET r == simulate_trade(ed, df).trade
    IN  IF r = None THEN None
        ELSE Some(Val(r) @@ [date |-> date, symbol |-> symbol])

\* The records of the results that are not None, in order.
Results(rs) ==
    LET kept == SelectSeq(rs, LAMBDA r : r # None)
    IN  [i \in 1..Len(kept) |-> Val(kept[i])]

\* run_real_backtest._backtest_single_day, lines 165-190: override, simulate
\* and tag each allocated position.
SimulateAllocated(allocated_stocks, prompt_type, date) ==
    Results([i \in 1..Len(allocated_stocks) |->
        LET stock == allocated_stocks[i]
            trade_result == DatedTrade(OverrideEntry(stock.entry_details, stock),
                                       stock.stock_data, stock.symbol, date)
        IN  IF trade_result = None THEN None
            ELSE Some(Val(trade_result) @@
                      [prompt_type |-> prompt_type,
                       confidence |-> stock.confidence,
                       ai_reason |-> stock.ai_reason,
                       allocated_quantity |-> stock.quantity,
                       allocated_capital |-> stock.capital_allocated,
                       signal_weight |-> stock.weight])])

\* run_multi_timeframe._backtest_single_day, lines 173-186: simulate with
\* calculate_entry's own details and tag.
SimulateFound(found, prompt_type, date) ==
    Results([i \in 1..Len(found) |->
        LET trade_result == DatedTrade(found[i].entry_details,
                                       found[i].stock_data,
                                       found[i].suggestion.symbol, date)
        IN  IF trade_result = None THEN None
            ELSE Some(Val(trade_result) @@
                      [prompt_type |-> prompt_type,
                       confidence |-> found[i].suggestion.confidence,
                       ai_reason |-> found[i].suggestion.reason])])

\* _backtest_single_day of the runner orch for the suggestions of one
\* (prompt_type, date), with the cache c: the trade records added, the
\* candidates handed to allocate_capital and what it returned (None when it is
\* not called), the cache afterwards, and whether an exception left the method.
backtest_single_day(orch, suggestions, prompt_type, date, c) ==
    IF Len(suggestions) = 0
    THEN [trades |-> <<>>, stocks |-> <<>>, allocated |-> None, cache |-> c,
          raised |-> FALSE]
    ELSE
    LET loop == SymbolLoop(Truncate(suggestions), 1, date, c)
    IN  IF loop.raised
        THEN [trades |-> <<>>, stocks |-> <<>>, allocated |-> None,
              cache |-> loop.cache, raised |-> TRUE]
        ELSE IF orch = "multi"
        THEN [trades |-> SimulateFound(loop.found, prompt_type, date),
              stocks |-> <<>>, allocated |-> None, cache |-> loop.cache,
              raised |-> FALSE]
        ELSE IF Len(loop.found) = 0
        THEN [trades |-> <<>>, stocks |-> <<>>, allocated |-> None,
              cache |-> loop.cache, raised |-> FALSE]
        ELSE
        LET stocks_for_allocation == StocksForAllocation(loop.found)
            allocated_stocks == allocate_capital(stocks_for_allocation)
        IN  [trades |-> SimulateAllocated(allocated_stocks, prompt_type, date),
             stocks |-> stocks_for_allocation,
             allocated |-> Some(allocated_stocks),
             cache |-> loop.cache, raised |-> FALSE]

\* The strategies (AI_PROMPTS) and the trading days of a run.
Strategies == {"P1", "P2"}
Dates == {"d1", "d2"}
Combos == Strategies \X Dates

Suggestion(symbol, b, conf) ==
    [symbol |-> symbol, bias |-> b, confidence |-> conf, reason |-> "r"]

\* A record collected before the day: another strategy's, of an earlier date.
EarlierTrade ==
    [date |-> "d0", symbol |-> "A", prompt_type |-> "P0", net_pnl |-> 100,
     invested_amount |-> 1000]

\* One day.  The source returns any list of up to MaxSuggestions suggestions.
DaySuggestions ==
    { Suggestion("A", "BULLISH", 90), Suggestion("A", "BEARISH", 30),
      Suggestion("B", "BEARISH", 30), Suggestion("C", "BULLISH", 0) }

DayLists == UNION { [1..n -> DaySuggestions] : n \in 0..MaxSuggestions }

\* daily_capital 100 rupees, and 30 rupees, whose capital cap of 9 rupees is
\* below the price of every stock with an entry.
DayConfigs == { Config(100, 2, 2, 30, 1, 5), Config(30, 2, 2, 30, 1, 5) }

InitDay ==
    /\ cfg \in DayConfigs
    /\ orchestrator \in {"real", "multi"}
    /\ \E combo \in Combos :
          /\ pending = {combo}
          /\ \E suggestions \in DayLists :
                source = [x \in {combo} |-> suggestions]
    /\ all_trades \in {<<>>, <<EarlierTrade>>}
    /\ cache = <<>>
    /\ report = None
    /\ prompt_performance = None
    /\ pc = "run"
    /\ stocks = <<>>
    /\ allocated = None
    /\ raw_df = <<>>
    /\ candle_data = None
    /\ bias = "BULLISH"
    /\ confidence = 0
    /\ entry_details = None
    /\ scanned = {}
    /\ trade = None
    /\ trades = <<>>
    /\ stats = None
    /\ validation = None

\* A run over every strategy and date.  The source returns, for each
\* combination, no suggestion, A, B then A, or Z.
RunLists ==
    { <<>>, <<Suggestion("A", "BULLISH", 90)>>,
      <<Suggestion("B", "BEARISH", 30), Suggestion("A", "BULLISH", 90)>>,
      <<Suggestion("Z", "BULLISH", 50)>> }

InitRun ==
    /\ cfg = Config(100, 2, 2, 30, 1, 5)
    /\ orchestrator \in {"real", "multi"}
    /\ pending = Combos
    /\ source \in [Combos -> RunLists]
    /\ all_trades = <<>>
    /\ cache = <<>>
    /\ report = None
    /\ prompt_performance = None
    /\ pc = "run"
    /\ stocks = <<>>
    /\ allocated = None
    /\ raw_df = <<>>
    /\ candle_data = None
    /\ bias = "BULLISH"
    /\ confidence = 0
    /\ entry_details = None
    /\ scanned = {}
    /\ trade = None
    /\ trades = <<>>
    /\ stats = None
    /\ validation = None

\* run_backtest, one turn of the loops: _backtest_single_day for a combination
\* not yet processed.  No handler stands between the method and main, so an
\* exception ends the run before generate_report.
BacktestSingleDay ==
    /\ pc = "run"
    /\ \E combo \in pending :
          LET day == backtest_single_day(orchestrator, source[combo], combo[1],
                                         combo[2], cache)
          IN  /\ cache' = day.cache
              /\ IF day.raised
                 THEN /\ pc' = "aborted"
                      /\ UNCHANGED <<pending, all_trades, stocks, allocated>>
                 ELSE /\ pc' = "run"
                      /\ pending' = pending \ {combo}
                      /\ all_trades' = all_trades \o day.trades
                      /\ stocks' = day.stocks
                      /\ allocated' = day.allocated
    /\ UNCHANGED <<cfg, raw_df, candle_data, bias, confidence, entry_details,
                   scanned, trade, expVars, orchestrator, source, report,
                   prompt_performance>>

\* run_backtest: generate_report(all_trades) after the loops, and in it the
\* Prompt Performance sheet.
GenerateReport ==
    /\ pc = "run"
    /\ pending = {}
    /\ report' = Some(all_trades)
    /\ prompt_performance' \in
           { Some(df) : df \in create_prompt_performance(all_trades) }
    /\ pc' = "reported"
    /\ UNCHANGED <<cfg, simVars, expVars, orchestrator, source, cache, pending,
                   all_trades>>

NextRun ==
    \/ BacktestSingleDay
    \/ GenerateReport

SpecDay == InitDay /\ [][NextRun]_vars

SpecRun == InitRun /\ [][NextRun]_vars

\* ------------------------------------------------------------- the report alone
\* generate_report on any list of up to MaxTrades tagged trade records: a
\* loss, a breakeven trade and two wins, 10 rupees invested in each.
ReportTrades ==
    [prompt_type : Strategies, date : Dates, net_pnl : {-200, 0, 100, 300},
     invested_amount : {1000}]

ReportLists == UNION { [1..n -> ReportTrades] : n \in 0..MaxTrades }

InitReport ==
    /\ cfg = Config(100, 2, 2, 30, 1, 5)
    /\ orchestrator = "real"
    /\ pending = {}
    /\ source = <<>>
    /\ all_trades \in ReportLists
    /\ cache = <<>>
    /\ report = None
    /\ prompt_performance = None
    /\ pc = "run"
    /\ stocks = <<>>
    /\ allocated = None
    /\ raw_df = <<>>
    /\ candle_data = None
    /\ bias = "BULLISH"
    /\ confidence = 0
    /\ entry_details = None
    /\ scanned = {}
    /\ trade = None
    /\ trades = <<>>
    /\ stats = None
    /\ validation = None

NextReport == GenerateReport

SpecReport == InitReport /\ [][NextReport]_vars

\* ------------------------------------------------------------- allocator claims
Positions == Val(allocated)

SumField(ps, f) == SumSeq([i \in 1..Len(ps) |-> ps[i][f]])

\* C1: the positions allocate_capital returns satisfy sum(capital_allocated) =
\* sum(quantity * entry_price) <= daily_capital, whether or not step 6 scaled.
C1_CapitalFeasible ==
    pc = "alloc_done" =>
        /\ SumField(Positions, "capital_allocated") = CapitalUsed(Positions)
        /\ SumField(Positions, "capital_allocated") <= cfg.daily_capital * 100

\* C1 witness: the scaling branch ran and positions were returned.
C1_Witness ==
    /\ pc = "alloc_done"
    /\ NeedsScaling(CapitalUsed(Step5Basket(stocks)))
    /\ Len(Positions) >= 2

\* C2 as claimed: the sum of max_loss over the returned positions is at most
\* daily_capital * basket_loss_percent / 100.  (centipaise on both sides)
C2_BasketLossCap ==
    pc = "alloc_done" =>
        SumField(Positions, "max_loss")
            <= cfg.daily_capital * cfg.basket_loss_percent * 100

\* C3: every returned position has capital_allocated <= daily_capital *
\* capital_cap_percent / 100.
C3_CapitalCap ==
    pc = "alloc_done" =>
        \A i \in 1..Len(Positions) :
            Positions[i].capital_allocated
                <= cfg.daily_capital * cfg.capital_cap_percent

\* C3 witness: a returned position holds the one share step 5 forced (its
\* floored quantity was 0), beside a position sized by the floor.
C3_Witness ==
    /\ pc = "alloc_done"
    /\ \E i \in 1..Len(stocks) :
          /\ FlooredRawQuantity(stocks[i], Weight(stocks[i], stocks)) = 0
          /\ \E k \in 1..Len(Positions) :
                /\ Positions[k].entry_price = stocks[i].entry_price
                /\ Positions[k].confidence = stocks[i].confidence
                /\ Positions[k].quantity = 1
    /\ \E k \in 1..Len(Positions) : Positions[k].quantity > 1

\* C9: step 1 gives weight(i) = confidence(i) / sum(confidence) when the sum is
\* > 0, so the weights sum to 1 and equal confidences get equal weights; when the
\* sum is 0 each of the N candidates gets 1/N.  Stated of the weight step 1
\* gives every candidate, and of the weight field of the returned positions.
C9_WeightNormalization ==
    pc = "alloc_done" /\ Len(stocks) > 0 =>
        LET N == Len(stocks)
            S == SumSeq([i \in 1..N |-> stocks[i].confidence])
            W(i) == Weight(stocks[i], stocks)
        IN  /\ \A i \in 1..N :
                  LET wi == W(i)
                  IN  /\ wi.den > 0
                      /\ wi.den = W(1).den
                      /\ S > 0 => wi.num * S = stocks[i].confidence * wi.den
                      /\ S = 0 => wi.num * N = wi.den
                      /\ \A j \in 1..N :
                            stocks[i].confidence = stocks[j].confidence
                                => wi.num * W(j).den = W(j).num * wi.den
            /\ S > 0 => SumSeq([i \in 1..N |-> W(i).num]) = W(1).den
            /\ \A k \in 1..Len(Positions) :
                  \E i \in 1..N :
                      /\ Positions[k].confidence = stocks[i].confidence
                      /\ Positions[k].weight = W(i)

\* C9 witness: a basket of at least three candidates with a positive sum, two
\* of them with the same positive confidence and one with another.
C9_Witness ==
    /\ pc = "alloc_done"
    /\ Len(stocks) >= 3
    /\ \E i, j, k \in 1..Len(stocks) :
          /\ i # j
          /\ stocks[i].confidence = stocks[j].confidence
          /\ stocks[i].confidence > 0
          /\ stocks[k].confidence # stocks[i].confidence
    /\ Len(Positions) = Len(stocks)


\* ------------------------------------------------------------- simulator claims
Traded == pc = "done" /\ trade # None
Rec == Val(trade)
Ed == Val(entry_details)
Df == Val(candle_data)

\* The position, counted from 0, of the entry candle in the series.
EntryPos == CHOOSE p \in 0..(Len(Df) - 1) : Iloc(Df, p).Time = Ed.entry_time

\* A candle crosses the stop, the target: low <= stop and high >= target for
\* BULLISH, high >= stop and low <= target for BEARISH.
CrossesStop(c) ==
    \/ Ed.bias = "BULLISH" /\ c.Low * 100 <= Ed.stop_loss
    \/ Ed.bias = "BEARISH" /\ c.High * 100 >= Ed.stop_loss

CrossesTarget(c) ==
    \/ Ed.bias = "BULLISH" /\ c.High * 100 >= Ed.target
    \/ Ed.bias = "BEARISH" /\ c.Low * 100 <= Ed.target

Triggers(c) ==
    c.Time >= cfg.force_exit_time \/ CrossesStop(c) \/ CrossesTarget(c)

\* The first of the scanned candles that triggers an exit.
FirstTrigger(j) ==
    /\ j \in scanned
    /\ Triggers(Iloc(Df, j))
    /\ \A k \in scanned : k < j => ~Triggers(Iloc(Df, k))

\* The exit price of the record for a raw exit price in centipaise.
Slipped(raw) == Round(ExitSlippage(raw, Ed.bias), 100000)

\* C4: when the first exit-triggering candle of the scan (time <
\* force_exit_time) crosses both the stop and the target, the exit reason is
\* STOP_LOSS at the stop price before slippage; a record with reason TARGET
\* never has an exit candle that crosses the stop.
C4_StopBeforeTarget ==
    Traded =>
        /\ \A j \in scanned :
              LET c == Iloc(Df, j)
              IN  /\ FirstTrigger(j)
                  /\ c.Time < cfg.force_exit_time
                  /\ CrossesStop(c) /\ CrossesTarget(c)
                  => /\ Rec.exit_reason = "STOP_LOSS"
                     /\ Rec.exit_time = c.Time
                     /\ Rec.exit_price = Slipped(Ed.stop_loss)
        /\ Rec.exit_reason = "TARGET" =>
              \A j \in scanned :
                  Iloc(Df, j).Time = Rec.exit_time => ~CrossesStop(Iloc(Df, j))

\* C4 witness: a trade stopped out on a candle before force_exit_time that
\* crosses both levels, the stop and the target lying apart.
C4_Witness ==
    /\ Traded
    /\ Rec.exit_reason = "STOP_LOSS"
    /\ Slipped(Ed.stop_loss) # Slipped(Ed.target)
    /\ \E j \in scanned :
          LET c == Iloc(Df, j)
          IN  /\ c.Time = Rec.exit_time
              /\ c.Time < cfg.force_exit_time
              /\ CrossesStop(c) /\ CrossesTarget(c)

\* C5: if no earlier scanned candle triggered an exit, the first scanned candle
\* with time >= force_exit_time closes the trade at its close with reason
\* FORCE_EXIT_EOD, whatever its high and low; no record has reason STOP_LOSS or
\* TARGET with an exit candle at or after force_exit_time.
C5_ForceExitFirst ==
    Traded =>
        /\ \A j \in scanned :
              LET c == Iloc(Df, j)
              IN  FirstTrigger(j) /\ c.Time >= cfg.force_exit_time
                  => /\ Rec.exit_reason = "FORCE_EXIT_EOD"
                     /\ Rec.exit_time = c.Time
                     /\ Rec.exit_price = Slipped(c.Close * 100)
        /\ Rec.exit_reason \in {"STOP_LOSS", "TARGET"} =>
              Rec.exit_time < cfg.force_exit_time

\* C5 witness: a trade force-exited on a scanned candle at or after
\* force_exit_time whose range crosses the stop, the close lying off the stop.
C5_Witness ==
    /\ Traded
    /\ Rec.exit_reason = "FORCE_EXIT_EOD"
    /\ \E j \in scanned :
          LET c == Iloc(Df, j)
          IN  /\ c.Time = Rec.exit_time
              /\ c.Time >= cfg.force_exit_time
              /\ CrossesStop(c)
              /\ Slipped(c.Close * 100) # Slipped(Ed.stop_loss)

\* C6: if no candle positioned after the entry candle crosses the stop or the
\* target or has time >= force_exit_time (the entry candle may be the last), the
\* trade exits at the last candle's close with reason FORCE_EXIT_EOD and
\* exit_time the last candle's time.
C6_SeriesEndsEarly ==
    Traded =>
        ( (\A p \in (EntryPos + 1)..(Len(Df) - 1) : ~Triggers(Iloc(Df, p)))
          => /\ Rec.exit_reason = "FORCE_EXIT_EOD"
             /\ Rec.exit_time = Df[Len(Df)].Time
             /\ Rec.exit_price = Slipped(Df[Len(Df)].Close * 100) )

\* C6 witness: a series that ends before force_exit_time with a candle after
\* the entry candle, none triggering, the last close off the entry candle's.
C6_Witness ==
    /\ Traded
    /\ EntryPos + 1 <= Len(Df) - 1
    /\ \A p \in (EntryPos + 1)..(Len(Df) - 1) : ~Triggers(Iloc(Df, p))
    /\ Df[Len(Df)].Close # Iloc(Df, EntryPos).Close
    /\ Rec.exit_reason = "FORCE_EXIT_EOD"

\* C7 as claimed: the exit scan starts at the candle positioned immediately
\* after the entry candle: none at or before it is tested, and none after it is
\* skipped before the first trigger.
C7_ScanStartsAfterEntry ==
    Traded =>
        /\ \A j \in scanned : j > EntryPos
        /\ \A j \in (EntryPos + 1)..(Len(Df) - 1) :
              (\A k \in (EntryPos + 1)..(j - 1) : ~Triggers(Iloc(Df, k)))
                  => j \in scanned

\* C8 as claimed: the label of a record agrees with the record's net_pnl.
C8_LabelMatchesNetPnl ==
    Traded =>
        /\ Rec.profit_or_loss = "PROFIT" <=> Rec.net_pnl > 0
        /\ Rec.profit_or_loss = "LOSS" <=> Rec.net_pnl < 0
        /\ Rec.profit_or_loss = "BREAKEVEN" <=> Rec.net_pnl = 0

\* C10 as claimed: for the entry details calculate_entry returns, for the
\* details overridden with the allocator's levels and for every allocated
\* position, BULLISH has stop_loss < entry_price < target and BEARISH has
\* target < entry_price < stop_loss.  (centipaise on both sides)
Monotone(b, stop_loss, entry_price, target) ==
    IF b = "BULLISH"
    THEN stop_loss < entry_price * 100 /\ entry_price * 100 < target
    ELSE target < entry_price * 100 /\ entry_price * 100 < stop_loss

C10_StopTargetMonotone ==
    /\ entry_details # None =>
          Monotone(Ed.bias, Ed.stop_loss, Ed.entry_price, Ed.target)
    /\ allocated # None =>
          \A i \in 1..Len(Positions) :
              Monotone(Positions[i].bias, Positions[i].stop_loss,
                       Positions[i].entry_price, Positions[i].target)

\* C13: calculate_entry takes as entry candle the earliest candle in series
\* order whose time >= entry_start_time, and returns no entry when there is
\* none or when floor(capital_per_trade / entry_price) is 0.
C13_EntryAtFirstCandle ==
    pc \in {"entered", "sized", "done"} /\ candle_data # None =>
        LET ok == { p \in 1..Len(Df) : Df[p].Time >= cfg.entry_start_time }
        IN  IF ok = {} THEN entry_details = None
            ELSE
            LET k == CHOOSE p \in ok : \A q \in ok : p <= q
                slipped == IF bias = "BULLISH"
                           THEN Df[k].Open * (1000 + cfg.slippage_permille)
                           ELSE Df[k].Open * (1000 - cfg.slippage_permille)
            IN  IF (cfg.capital_per_trade * 100000) \div slipped = 0
                THEN entry_details = None
                ELSE /\ entry_details # None
                     /\ Ed.entry_time = Df[k].Time
                     /\ Ed.entry_price = Round(slipped, 1000)
                     /\ \A q \in 1..(k - 1) :
                           Df[q].Time < cfg.entry_start_time

\* C13 witness: an entry taken at the second candle of a series of three, the
\* first lying before entry_start_time and the second and third not.
C13_Witness ==
    /\ pc = "entered"
    /\ Len(Df) >= 3
    /\ Df[1].Time < cfg.entry_start_time
    /\ Df[2].Time = cfg.entry_start_time
    /\ Ed.entry_time = Df[2].Time

\* C13, the other outcomes: no candle at or after entry_start_time, and a price
\* above capital_per_trade, both end without an entry.
C13_NoEntryReached ==
    /\ pc = "done"
    /\ candle_data # None
    /\ entry_details = None
    /\ \E p \in 1..Len(Df) :
          /\ Df[p].Time >= cfg.entry_start_time
          /\ Df[p].Open * 1000 > cfg.capital_per_trade * 100000

\* The raw exit price of the record, in centipaise: the stop, the target, or
\* the close of the candle the trade left at.
RawExit ==
    IF Rec.exit_reason = "STOP_LOSS" THEN Ed.stop_loss
    ELSE IF Rec.exit_reason = "TARGET" THEN Ed.target
    ELSE LET p == CHOOSE q \in 1..Len(Df) : Df[q].Time = Rec.exit_time
         IN  Df[p].Close * 100

Stats == Val(stats)

\* What the claim names: wins and losses counted and averaged over the list.
WinsOf(ts) == { i \in 1..Len(ts) : ts[i].net_pnl > 0 }
LossesOf(ts) == { i \in 1..Len(ts) : ts[i].net_pnl < 0 }

RECURSIVE SumOver(_, _)
SumOver(ts, I) ==
    IF I = {} THEN 0
    ELSE LET i == CHOOSE j \in I : TRUE
         IN  ts[i].net_pnl + SumOver(ts, I \ {i})

MeanOver(ts, I) ==
    IF I = {} THEN Rat(0, 1) ELSE Rat(Abs(SumOver(ts, I)), Cardinality(I))

\* C11 as claimed: for a non-empty list, win_rate = wins / total and
\* expectancy = win_rate * avg_win - (1 - win_rate) * avg_loss, with avg_win the
\* mean of the positive net_pnl and avg_loss the mean of |negative net_pnl|.
C11_ExpectancyFormula ==
    pc = "exp_done" /\ Len(trades) > 0 =>
        LET total == Len(trades)
            win_rate == Rat(Cardinality(WinsOf(trades)), total)
            avg_win == MeanOver(trades, WinsOf(trades))
            avg_loss == MeanOver(trades, LossesOf(trades))
        IN  /\ RatEq(Stats.win_rate, win_rate)
            /\ RatEq(Stats.avg_win, avg_win)
            /\ RatEq(Stats.avg_loss, avg_loss)
            /\ RatEq(Stats.expectancy,
                     RatSub(RatMul(win_rate, avg_win),
                            RatMul(RatSub(Rat(1, 1), win_rate), avg_loss)))

\* C12: signal_strength = max(0, expectancy) for every list, and for the empty
\* list win_rate, avg_win, avg_loss, expectancy, signal_strength and
\* total_trades are all 0.
C12_SignalStrengthClipped ==
    pc = "exp_done" =>
        /\ Stats.expectancy.den > 0
        /\ IF Stats.expectancy.num > 0
           THEN RatEq(Stats.signal_strength, Stats.expectancy)
           ELSE Stats.signal_strength.num = 0
        /\ Len(trades) = 0 =>
              /\ Stats.win_rate.num = 0
              /\ Stats.avg_win.num = 0
              /\ Stats.avg_loss.num = 0
              /\ Stats.expectancy.num = 0
              /\ Stats.signal_strength.num = 0
              /\ Stats.total_trades = 0

\* C12 witness: a list with wins and losses whose expectancy is negative, so
\* that the clipping acts.
C12_Witness ==
    /\ pc = "exp_done"
    /\ WinsOf(trades) # {}
    /\ LossesOf(trades) # {}
    /\ Stats.expectancy.num < 0
    /\ Stats.signal_strength.num = 0

\* ------------------------------------------------------------- day and run claims
\* The records collected for a combination.
DayRecords(combo) ==
    SelectSeq(all_trades,
              LAMBDA t : t.prompt_type = combo[1] /\ t.date = combo[2])

\* In a one-day run: the combination, what the source returned for it, the
\* part of it within the limit, and whether the day has been processed.
TheDay == CHOOSE combo \in DOMAIN source : TRUE
Suggested == source[TheDay]
WithinLimit == 1..Min(Len(Suggested), cfg.max_stocks_limit)
DayDone == pc \in {"run", "reported"} /\ pending = {}

\* A suggestion has candles on the date and an entry in them.
Viable(suggestion, date) ==
    LET df == fetch_intraday_data(History(suggestion.symbol, date), date)
    IN  df # None /\ calculate_entry(Val(df), suggestion.bias) # None

ViableWithinLimit == { i \in WithinLimit : Viable(Suggested[i], TheDay[2]) }

\* The place of the i-th suggestion among the viable ones.
Rank(i) == Cardinality({ j \in ViableWithinLimit : j <= i })

\* C15 as claimed: every trade record of a day run, of either runner, comes
\* from a position sized by the allocator: allocate_capital was called and the
\* record's quantity, stop_loss and target are those of an allocated position
\* of that symbol.
C15_SizedByAllocator ==
    DayDone =>
        \A n \in 1..Len(DayRecords(TheDay)) :
            LET t == DayRecords(TheDay)[n]
            IN  /\ allocated # None
                /\ \E k \in 1..Len(Positions) :
                      /\ Positions[k].symbol = t.symbol
                      /\ Positions[k].bias = t.bias
                      /\ t.quantity = Positions[k].quantity
                      /\ t.stop_loss = Round(Positions[k].stop_loss, 100)
                      /\ t.target = Round(Positions[k].target, 100)

\* C16: the suggestions are cut to the configured maximum before any candle is
\* fetched, entry computed or capital allocated: no symbol beyond the limit is
\* fetched, allocate_capital receives at most max_stocks_limit candidates and
\* the day adds at most max_stocks_limit records.
C16_TruncatedBeforeEntry ==
    DayDone =>
        /\ \A key \in DOMAIN cache :
              \E i \in WithinLimit : key[1] = Suggested[i].symbol
        /\ Len(stocks) <= cfg.max_stocks_limit
        /\ Len(DayRecords(TheDay)) <= cfg.max_stocks_limit

\* C16 witness: the source returned more suggestions than the limit, the one
\* beyond it of a symbol with candles that the ones within do not name, and
\* the day added as many records as the limit allows.
C16_Witness ==
    /\ DayDone
    /\ Len(Suggested) > cfg.max_stocks_limit
    /\ \E i \in 1..Len(Suggested) :
          /\ i > cfg.max_stocks_limit
          /\ Viable(Suggested[i], TheDay[2])
          /\ \A j \in WithinLimit : Suggested[j].symbol # Suggested[i].symbol
    /\ Len(DayRecords(TheDay)) = cfg.max_stocks_limit

\* C17: input-absent conditions never abort a day.  A symbol without candles
\* or without an entry is skipped and the symbols after it are still
\* processed: the multi-timeframe runner adds one record per viable suggestion,
\* in order; the allocating runner hands exactly the viable suggestions to
\* allocate_capital, in order, and adds one record per allocated position.  A
\* day without suggestions, candidates or allocated positions adds no record,
\* and the records collected before stay as they were, at the head of the list.
C17_InputAbsentSkipped ==
    /\ pc # "aborted"
    /\ DayDone =>
          LET recs == DayRecords(TheDay)
              prior == SelectSeq(all_trades, LAMBDA t : t.date = "d0")
          IN  /\ prior \in {<<>>, <<EarlierTrade>>}
              /\ all_trades = prior \o recs
              /\ ViableWithinLimit = {} => recs = <<>>
              /\ orchestrator = "multi" =>
                    /\ Len(recs) = Cardinality(ViableWithinLimit)
                    /\ \A i \in ViableWithinLimit :
                          /\ recs[Rank(i)].symbol = Suggested[i].symbol
                          /\ recs[Rank(i)].bias = Suggested[i].bias
              /\ orchestrator = "real" =>
                    /\ Len(stocks) = Cardinality(ViableWithinLimit)
                    /\ \A i \in ViableWithinLimit :
                          /\ stocks[Rank(i)].symbol = Suggested[i].symbol
                          /\ stocks[Rank(i)].bias = Suggested[i].bias
                    /\ allocated = None <=> ViableWithinLimit = {}
                    /\ allocated # None => Len(recs) = Len(Positions)

\* C17 witness: after an earlier record, a day whose first suggestion has no
\* candles or no entry and whose second is traded.
C17_Witness ==
    /\ DayDone
    /\ all_trades # <<>>
    /\ all_trades[1] = EarlierTrade
    /\ Len(Suggested) >= 2
    /\ ~Viable(Suggested[1], TheDay[2])
    /\ Viable(Suggested[2], TheDay[2])
    /\ Len(DayRecords(TheDay)) = 1
    /\ DayRecords(TheDay)[1].symbol = Suggested[2].symbol

\* C17, the other outcome: the allocating runner with candidates and no
\* allocated position.
C17_NothingAllocatedReached ==
    /\ DayDone
    /\ orchestrator = "real"
    /\ Len(stocks) > 0
    /\ allocated = Some(<<>>)
    /\ DayRecords(TheDay) = <<>>

\* C18 as claimed: a combination whose processing raises is skipped and the
\* run goes on: the run is at its loops or has written its report, never
\* stopped by an exception with no report written.
C18_RunSurvivesErrors ==
    ~(pc = "aborted" /\ report = None)

\* C19: days are independent.  The records of every processed combination are
\* those the day gives on its own, with an empty cache, whatever was processed
\* before it and in whatever order; the candidates last handed to
\* allocate_capital are those of one processed day alone; and every cache
\* entry holds the candles of its own symbol and date.
C19_DaysIndependent ==
    /\ \A combo \in Combos \ pending :
          DayRecords(combo) =
              backtest_single_day(orchestrator, source[combo], combo[1],
                                  combo[2], <<>>).trades
    /\ \/ stocks = <<>>
       \/ \E combo \in Combos \ pending :
             stocks = backtest_single_day(orchestrator, source[combo], combo[1],
                                          combo[2], <<>>).stocks
    /\ \A key \in DOMAIN cache :
          /\ key[2] \in Dates
          /\ Some(cache[key]) =
                 fetch_intraday_data(History(key[1], key[2]), key[2])

\* C19 witness: a finished run in which both strategies traded A on both
\* dates, the second strategy from the cache, d1 leaving at the target and d2
\* not.
C19_Witness ==
    /\ pc = "reported"
    /\ \A combo \in Combos :
          /\ Len(DayRecords(combo)) >= 1
          /\ \E n \in 1..Len(DayRecords(combo)) :
                LET t == DayRecords(combo)[n]
                IN  /\ t.symbol = "A"
                    /\ t.exit_reason = "TARGET" <=> combo[2] = "d1"
    /\ DOMAIN cache = { CacheKey("A", d) : d \in Dates }

\* C20 as claimed: a day run opens at most max_positions_per_day positions.
C20_MaxPositionsPerDay ==
    DayDone => Len(DayRecords(TheDay)) <= cfg.max_positions_per_day

\* ------------------------------------------------------------- reporter claims
Table == Val(prompt_performance)
StrategyRows == SubSeq(Table, 1, Len(Table) - 1)
OverallRow == Table[Len(Table)]
Reported == pc = "reported" /\ Len(all_trades) > 0

\* C21: for a non-empty trade list the Prompt Performance table has exactly one
\* row per distinct strategy identifier, these rows in order of non-increasing
\* SignalStrength, then exactly one overall row computed over all trades of all
\* strategies, whose trade count is the sum of the strategy rows' trade counts.
C21_PromptPerformanceTable ==
    Reported =>
        /\ Len(Table) = Cardinality(PromptTypes(all_trades)) + 1
        /\ \A p \in PromptTypes(all_trades) :
              Cardinality({ i \in 1..Len(StrategyRows) :
                              StrategyRows[i].PromptType = p }) = 1
        /\ \A i \in 1..Len(StrategyRows) :
              /\ StrategyRows[i].PromptType \in PromptTypes(all_trades)
              /\ StrategyRows[i].TotalTrades =
                     Cardinality({ k \in 1..Len(all_trades) :
                         all_trades[k].prompt_type = StrategyRows[i].PromptType })
        /\ \A i \in 1..(Len(StrategyRows) - 1) :
              StrategyRows[i].SignalStrength >= StrategyRows[i + 1].SignalStrength
        /\ OverallRow.PromptType = OverallLabel
        /\ OverallRow.TotalTrades = Len(all_trades)
        /\ OverallRow.NetProfitLoss =
               SumSeq([k \in 1..Len(all_trades) |-> all_trades[k].net_pnl])
        /\ OverallRow.TotalTrades =
               SumSeq([i \in 1..Len(StrategyRows) |-> StrategyRows[i].TotalTrades])

\* C21 witness: a table of two strategies of different signal strength, the
\* stronger one being the later in key order, and the overall row.
C21_Witness ==
    /\ Reported
    /\ Len(Table) = 3
    /\ StrategyRows[1].PromptType = "P2"
    /\ StrategyRows[1].SignalStrength > StrategyRows[2].SignalStrength
    /\ OverallRow.TotalTrades = 3

\* ------------------------------------------------------------- allocator claims, continued
\* The candidates of the call, each tagged with a symbol of its own, and the
\* fields the allocator gives a position.
Tagged == [i \in 1..Len(stocks) |-> stocks[i] @@ [symbol |-> i]]

Perms(n) == { f \in [1..n -> 1..n] : \A i, j \in 1..n : i # j => f[i] # f[j] }

Sizing(p) ==
    [weight |-> p.weight, quantity |-> p.quantity, stop_loss |-> p.stop_loss,
     target |-> p.target, capital_allocated |-> p.capital_allocated,
     max_loss |-> p.max_loss]

Sized(ps) == { [symbol |-> ps[k].symbol, sizing |-> Sizing(ps[k])] : k \in 1..Len(ps) }

RawNum(i) ==
    total_capital * cfg.basket_loss_percent * 100 * Weight(stocks[i], stocks).num

RawDen(i) == Weight(stocks[i], stocks).den * RiskPerShare(stocks[i])

IsFlooredMin(i, f) ==
    /\ f * RawDen(i) <= RawNum(i)
    /\ f * stocks[i].entry_price <= MaxCapitalPerStock
    /\ \/ (f + 1) * RawDen(i) > RawNum(i)
       \/ (f + 1) * stocks[i].entry_price > MaxCapitalPerStock

\* C23: step 5 sets quantity to floor(min(raw_quantity, cap / entry_price)) when
\* that floor is above 0, and when it is 0 to 1 if entry_price <= cap and to 0
\* otherwise; every returned position has an integer quantity >= 1, every
\* candidate whose final quantity is 0 is absent from the result, and an empty
\* candidate list returns an empty list.
C23_Step5AndFilter ==
    pc = "alloc_done" =>
        LET step5 == Step5Basket(stocks)
            capital_used == CapitalUsed(step5)
        IN  /\ \A i \in 1..Len(stocks) :
                  /\ step5[i].quantity \in Nat
                  /\ IF IsFlooredMin(i, 0)
                     THEN step5[i].quantity =
                              IF stocks[i].entry_price <= MaxCapitalPerStock
                              THEN 1 ELSE 0
                     ELSE step5[i].quantity > 0
                          /\ IsFlooredMin(i, step5[i].quantity)
            /\ \A k \in 1..Len(Positions) :
                  Positions[k].quantity \in Nat /\ Positions[k].quantity >= 1
            /\ Len(Positions) =
                   Cardinality({ i \in 1..Len(stocks) :
                       ScaledQuantity(step5[i].quantity, capital_used) > 0 })
            /\ Len(stocks) = 0 => Positions = <<>>

\* C23 witness: a basket with a candidate whose floor is above 0, one whose
\* floor is 0 and that gets the single share, and one above the cap that is
\* dropped.
C23_Witness ==
    /\ pc = "alloc_done"
    /\ \E i, j, k \in 1..Len(stocks) :
          /\ ~IsFlooredMin(i, 0)
          /\ IsFlooredMin(j, 0)
          /\ stocks[j].entry_price <= MaxCapitalPerStock
          /\ Step5Basket(stocks)[j].quantity = 1
          /\ stocks[k].entry_price > MaxCapitalPerStock
    /\ Len(Positions) = 2

\* C23 second witness: the empty candidate list.
C23_EmptyBasketReached == pc = "alloc_done" /\ Len(stocks) = 0

\* ------------------------------------------------------------- validation claims
Validated == pc = "validated"
Handed == Val(validation).allocated_stocks
Result == Val(validation).result
CapitalError == "Capital used exceeds total capital"
RiskError == "Total risk exceeds expected max loss"
Reports(e) == \E k \in 1..Len(Result.errors) : Result.errors[k] = e

\* C24: validate_allocation leaves the allocation list and every position in it
\* unchanged and returns valid exactly when the error list is empty; for a
\* non-empty allocation an error is reported iff sum(capital_allocated) >
\* daily_capital or sum(max_loss) > 1.1 * daily_capital * basket_loss_percent /
\* 100, and the empty allocation returns valid = false with the single error
\* 'No stocks allocated'.
C24_ValidateAllocation ==
    Validated =>
        /\ Val(allocated) = Handed
        /\ Result.valid <=> Len(Result.errors) = 0
        /\ Len(Handed) = 0 =>
              /\ ~Result.valid
              /\ Result.errors = <<"No stocks allocated">>
        /\ Len(Handed) > 0 =>
              /\ Reports(CapitalError) <=>
                     SumField(Handed, "capital_allocated") > cfg.daily_capital * 100
              /\ Reports(RiskError) <=>
                     10 * SumField(Handed, "max_loss")
                         > 11 * cfg.daily_capital * cfg.basket_loss_percent * 100
              /\ \A k \in 1..Len(Result.errors) :
                    Result.errors[k] \in {CapitalError, RiskError}

\* C24 witness: a basket whose risk is above the loss cap and within the
\* tolerance, so valid, with capital exactly at daily_capital.
C24_Witness ==
    /\ Validated
    /\ Len(Handed) > 0
    /\ Result.valid
    /\ SumField(Handed, "max_loss")
           > cfg.daily_capital * cfg.basket_loss_percent * 100
    /\ SumField(Handed, "capital_allocated") = cfg.daily_capital * 100

\* C24 further witnesses: both errors at once; an allocation returned by
\* allocate_capital that fails the risk check; the empty allocation.
C24_BothErrorsReached ==
    Validated /\ Len(Handed) > 0 /\ Len(Result.errors) = 2

C24_AllocatorOutputFailsReached ==
    Validated /\ Len(stocks) > 0 /\ Len(Handed) > 0 /\ Reports(RiskError)

C24_EmptyReached == Validated /\ Len(Handed) = 0

\* ------------------------------------------------------------- simulator claims, continued
\* simulate_trade has been called; the series holds a candle at entry_time;
\* the entry details are those calculate_entry gives on the series.
Simulated ==
    /\ pc = "done"
    /\ entry_details # None
    /\ allocated = None \/ Len(Val(allocated)) > 0

EntryCandlePresent == \E i \in 1..Len(Df) : Df[i].Time = Ed.entry_time

FromSameSeries ==
    /\ calculate_entry(Df, bias) # None
    /\ Val(calculate_entry(Df, bias)).entry_time = Ed.entry_time
    /\ Val(calculate_entry(Df, bias)).entry_price = Ed.entry_price

\* C25: simulate_trade returns no result when no candle of the series has a
\* time equal to entry_details.entry_time; when entry_details comes from
\* calculate_entry on the same series such a candle exists and simulate_trade
\* returns a trade record.
C25_EntryCandleLocated ==
    Simulated =>
        /\ ~EntryCandlePresent => trade = None
        /\ FromSameSeries => EntryCandlePresent /\ trade # None

\* C25 witness: entry details for a time slot the series lacks, between two of
\* its candles, and no result.
C25_Witness ==
    /\ Simulated
    /\ ~EntryCandlePresent
    /\ \E i, j \in 1..Len(Df) : Df[i].Time < Ed.entry_time /\ Ed.entry_time < Df[j].Time
    /\ trade = None

\* C25 second witness: entry details from the same series, and a record.
C25_SameSeriesReached ==
    Simulated /\ FromSameSeries /\ Len(Df) = MaxCandles /\ trade # None

\* ------------------------------------------------------------- day claims, continued
\* C26 as claimed: in every trade record of a day of the allocating runner
\* invested_amount equals quantity * entry_price, the position's
\* capital_allocated, transaction_cost is charged on that amount, and the
\* day's invested_amount sums to at most daily_capital.
C26_InvestedIsDeployed ==
    (DayDone /\ orchestrator = "real") =>
        /\ \A n \in 1..Len(DayRecords(TheDay)) :
              LET t == DayRecords(TheDay)[n]
              IN  /\ t.invested_amount = t.quantity * t.entry_price
                  /\ t.invested_amount = t.allocated_capital
                  /\ t.transaction_cost =
                         Round(t.quantity * t.entry_price * 2
                                   * cfg.transaction_cost_bp * 10, 100000)
        /\ SumField(DayRecords(TheDay), "invested_amount")
               <= cfg.daily_capital * 100

\* The position, counted from 0, of the record's exit candle in the series.
ExitPos == CHOOSE p \in 0..(Len(Df) - 1) : Iloc(Df, p).Time = Rec.exit_time

\* The series with the candle at position p given another shape.
Reshaped(p, sh) ==
    [Df EXCEPT ![p + 1] = [@ EXCEPT !.Open = sh.Open, !.High = sh.High,
                                    !.Low = sh.Low, !.Close = sh.Close]]

\* C27 as claimed: simulate_trade exits once, at the earliest candle after the
\* entry candle that meets an exit condition (time >= force_exit_time, stop
\* crossed or target crossed); exit_reason is STOP_LOSS, TARGET or
\* FORCE_EXIT_EOD, the exit candle is not before the entry candle, and changing
\* a candle after the exit candle does not change the record.
C27_ExitsAtEarliestTrigger ==
    Traded =>
        /\ Rec.exit_reason \in {"STOP_LOSS", "TARGET", "FORCE_EXIT_EOD"}
        /\ \E p \in 0..(Len(Df) - 1) : Iloc(Df, p).Time = Rec.exit_time
        /\ ExitPos >= EntryPos
        /\ \A j \in (EntryPos + 1)..(Len(Df) - 1) :
              (/\ Triggers(Iloc(Df, j))
               /\ \A k \in (EntryPos + 1)..(j - 1) : ~Triggers(Iloc(Df, k)))
              => ExitPos = j
        /\ \A p \in (ExitPos + 1)..(Len(Df) - 1) :
              \A sh \in UNION ShapeFamilies :
                  simulate_trade(Ed, Reshaped(p, sh)).trade = trade

\* The net P&L before rounding, in micropaise, of an exit at the stop price:
\* the stop after exit slippage against the entry price, times the quantity,
\* less the transaction cost.
NetAtStop ==
    LET exit_price == IF Ed.bias = "BULLISH"
                      THEN Ed.stop_loss * (1000 - cfg.slippage_permille)
                      ELSE Ed.stop_loss * (1000 + cfg.slippage_permille)
        per_share == IF Ed.bias = "BULLISH"
                     THEN exit_price - Ed.entry_price * 100000
                     ELSE Ed.entry_price * 100000 - exit_price
    IN  per_share * Ed.quantity
        - Ed.invested_amount * 2 * cfg.transaction_cost_bp * 10

\* The stop is on the losing side of the entry, and the stop distance, the
\* slippage or the cost is positive.
StopOnLosingSide ==
    /\ Ed.quantity >= 1
    /\ cfg.slippage_permille >= 0
    /\ cfg.transaction_cost_bp >= 0
    /\ IF Ed.bias = "BULLISH" THEN Ed.stop_loss <= Ed.entry_price * 100
       ELSE Ed.stop_loss >= Ed.entry_price * 100
    /\ \/ Ed.stop_loss # Ed.entry_price * 100
       \/ cfg.slippage_permille > 0
       \/ cfg.transaction_cost_bp > 0

\* C28: every trade record with exit_reason STOP_LOSS is a losing trade: with a
\* quantity >= 1, slippage and cost >= 0 and the stop on the losing side of the
\* entry, the net P&L before rounding is below 0 and profit_or_loss is LOSS.
C28_StopLossLoses ==
    (Traded /\ Rec.exit_reason = "STOP_LOSS" /\ StopOnLosingSide) =>
        /\ NetAtStop < 0
        /\ Rec.profit_or_loss = "LOSS"
        /\ Rec.net_pnl <= 0

\* C28 witness: a stop exit of a penny stock whose rounded stop equals the
\* entry price, a loss by slippage and cost alone.
C28_Witness ==
    /\ Traded
    /\ Rec.exit_reason = "STOP_LOSS"
    /\ StopOnLosingSide
    /\ Ed.stop_loss = Ed.entry_price * 100
    /\ Rec.profit_or_loss = "LOSS"

\* C28 further witnesses: a stop at a distance, long and short; no stop exit
\* has the stop on the winning side.
C28_LongStopReached ==
    /\ Traded /\ Rec.exit_reason = "STOP_LOSS" /\ Ed.bias = "BULLISH"
    /\ Ed.stop_loss < Ed.entry_price * 100

C28_ShortStopReached ==
    /\ Traded /\ Rec.exit_reason = "STOP_LOSS" /\ Ed.bias = "BEARISH"
    /\ Ed.stop_loss > Ed.entry_price * 100

C28_StopAlwaysOnLosingSide ==
    (Traded /\ Rec.exit_reason = "STOP_LOSS") => StopOnLosingSide

\* C29 as claimed: no position is entered at or after the force-exit cutoff:
\* every entry calculate_entry returns and every trade record has entry_time <
\* force_exit_time, and exit_time >= entry_time, with exit_time > entry_time
\* when the series has a candle after the entry candle.
C29_EntryBeforeCutoff ==
    /\ entry_details # None => Ed.entry_time < cfg.force_exit_time
    /\ Traded =>
          /\ Rec.entry_time < cfg.force_exit_time
          /\ Rec.exit_time >= Rec.entry_time
          /\ (\E i \in 1..Len(Df) : Df[i].Time > Rec.entry_time)
                 => Rec.exit_time > Rec.entry_time

\* ------------------------------------------------------------- reporter claims, continued
\* The table's row of a strategy.
RowOf(p) == StrategyRows[CHOOSE i \in 1..Len(StrategyRows) :
                             StrategyRows[i].PromptType = p]

=============================================================================
